---- MODULE Spec2Model ----
(***************************************************************************)
(* A model of the autodidact reverse-mode autodiff core:                   *)
(*   autograd/tracer.py  (Box, Node, TraceStack, trace, primitive,         *)
(*                        notrace_primitive, find_top_boxed_args, getval)  *)
(*   autograd/core.py    (make_vjp, backward_pass, add_outgrads, registry) *)
(*   autograd/util.py    (toposort, subvals)                               *)
(*   autograd/differential_operators.py (grad)                             *)
(*   autograd/numpy/numpy_vjps.py (rules of add and multiply)              *)
(*                                                                         *)
(* Numbers are rank-0 values (Python floats), modelled as integers.        *)
(* A Python object is identified by its creation index: a Node is its      *)
(* index in heap, and None is index 0.                                     *)
(***************************************************************************)
EXTENDS Integers, Sequences, FiniteSets, TLC

VARIABLES
    heap,     \* every Node object created so far, in creation order
    top,      \* trace_stack.top
    frames,   \* the call stack: frames[1] is module level, the others are
              \* running calls of trace(); each holds the values its code can name
    bp,       \* the backward_pass call in progress (its local variables)
    last,     \* ghost: a record of the last library call that returned or raised
    ts,       \* the local variables of a toposort generator (SpecTopo)
    prog,     \* ghost: the program run and its result (SpecProg)
    calls,    \* the number of library calls the user code has made (Spec)
    registry  \* core.primitive_vjps: for each key, the argnums that have a rule

vars == <<heap, top, frames, bp, last, ts, prog, calls, registry>>

----------------------------------------------------------------------------
(* Bounds of the model *)

MaxNodes == 4       \* Node objects in heap (Spec)
MaxDepth == 2       \* nested running traces (Spec)
MaxVals == 1        \* values a frame computes and keeps (Spec)
MaxTop == 2         \* largest trace_stack.top (Spec)
MaxDag == 4         \* Nodes of a drawn graph (SpecTopo)
MaxParents == 2     \* parents of a drawn Node (SpecTopo)
MaxCalls == 6       \* library calls made by the user code (Spec)
MaxRaw == 24        \* largest number the running code computes (Spec)
MaxInput == 10      \* inputs x of a program are -MaxInput..MaxInput (SpecProg)

----------------------------------------------------------------------------
(* Values.  A value is a raw number under zero or more Boxes.  The nesting *)
(* Box(Box(v, t1, n1), t2, n2) is written as the raw value v with the      *)
(* sequence of layers <<[t1, n1], [t2, n2]>>, innermost Box first: the     *)
(* last layer is the outermost Box, and removing it gives Box._value.      *)

None == 0

Raw(n) == [raw |-> n, ty |-> "float", layers |-> <<>>]

\* a value of a type without a Box type (a str)
StrVal == [raw |-> 0, ty |-> "str", layers |-> <<>>]

\* the value of a root Node's recipe
NoneVal == [raw |-> 0, ty |-> "NoneType", layers |-> <<>>]

Box(value, trace_id, node) ==
    [value EXCEPT !.layers = Append(@, [trace_id |-> trace_id, node |-> node])]

isbox(x) == Len(x.layers) > 0

BoxValue(b) == [b EXCEPT !.layers = SubSeq(@, 1, Len(@) - 1)]
BoxNode(b) == b.layers[Len(b.layers)].node
BoxTraceId(b) == b.layers[Len(b.layers)].trace_id

type(x) == IF isbox(x) THEN "ArrayBox" ELSE x.ty

\* the keys of Box.type_mappings after ArrayBox.register(float)
box_type_mappings == {"float", "ArrayBox"}

\* new_box raises TypeError exactly when the lookup raises KeyError
new_box_raises(value) == type(value) \notin box_type_mappings

new_box(value, trace_id, node) == Box(value, trace_id, node)

\* a faulty getval that removes one Box only
getval_one_layer(x) == IF isbox(x) THEN BoxValue(x) ELSE x

RECURSIVE getval(_)
getval(x) == IF isbox(x) THEN getval(BoxValue(x)) ELSE x

zeros_like(x) == Raw(0)
ones_like(x) == Raw(1)

----------------------------------------------------------------------------
(* Nodes.  A heap entry is the Node (parents and the recipe, kwargs being  *)
(* always empty here) with two ghost fields: the trace_id it was recorded  *)
(* at and the root Node of the running trace() call that recorded it.      *)

\* a faulty Node whose recipe keeps the numbers under the Boxes of args
Node_unboxed_recipe(value, fun, args, parent_argnums, parents) ==
    [parents |-> parents, fun |-> fun, value |-> value,
     args |-> [k \in DOMAIN args |-> getval(args[k])], argnums |-> parent_argnums]

Node(value, fun, args, parent_argnums, parents) ==
    [parents |-> parents, fun |-> fun, value |-> value, args |-> args,
     argnums |-> parent_argnums]

new_root == [parents |-> <<>>, fun |-> "root", value |-> NoneVal, args |-> <<>>,
             argnums |-> <<>>]

Entry(node, trace_id, inv) == [node |-> node, trace_id |-> trace_id, inv |-> inv]

Parents(h, n) == h[n].node.parents

----------------------------------------------------------------------------
(* util.toposort, one loop iteration at a time.  t holds the generator's   *)
(* locals; out is the sequence of Nodes yielded so far.                    *)

toposort_start(end_node) ==
    [child_counts |-> [n \in {} |-> 0], stack |-> <<end_node>>,
     childless_nodes |-> <<>>, out |-> <<>>, pc |-> "count", end_node |-> end_node]

\* one iteration of `while stack`
count_step(h, t) ==
    LET node == t.stack[Len(t.stack)]
        rest == SubSeq(t.stack, 1, Len(t.stack) - 1)
        seen == node \in DOMAIN t.child_counts
        cc == IF seen THEN [t.child_counts EXCEPT ![node] = @ + 1]
              ELSE (node :> 1) @@ t.child_counts
        stack == IF seen THEN rest ELSE rest \o Parents(h, node)
    IN  IF stack = <<>>
        THEN [t EXCEPT !.child_counts = cc, !.stack = stack, !.pc = "emit",
                       !.childless_nodes = <<t.end_node>>]
        ELSE [t EXCEPT !.child_counts = cc, !.stack = stack]

\* a faulty loop that hands on every parent without looking at its count
RECURSIVE release_regardless(_, _, _, _)
release_regardless(cc, childless, parents, k) ==
    IF k > Len(parents) THEN [child_counts |-> cc, childless_nodes |-> childless]
    ELSE release_regardless(cc, Append(childless, parents[k]), parents, k + 1)

\* `for parent in node.parents` from the k-th parent on
RECURSIVE release(_, _, _, _)
release(cc, childless, parents, k) ==
    IF k > Len(parents) THEN [child_counts |-> cc, childless_nodes |-> childless]
    ELSE IF cc[parents[k]] = 1
         THEN release(cc, Append(childless, parents[k]), parents, k + 1)
         ELSE release([cc EXCEPT ![parents[k]] = @ - 1], childless, parents, k + 1)

\* one iteration of `while childless_nodes`
emit_step(h, t) ==
    LET node == t.childless_nodes[Len(t.childless_nodes)]
        rest == SubSeq(t.childless_nodes, 1, Len(t.childless_nodes) - 1)
        r == release(t.child_counts, rest, Parents(h, node), 1)
    IN  [t EXCEPT !.out = Append(@, node), !.child_counts = r.child_counts,
                  !.childless_nodes = r.childless_nodes,
                  !.pc = IF r.childless_nodes = <<>> THEN "done" ELSE "emit"]

RECURSIVE run_toposort(_, _)
run_toposort(h, t) ==
    IF t.pc = "count" THEN run_toposort(h, count_step(h, t))
    ELSE IF t.pc = "emit" THEN run_toposort(h, emit_step(h, t))
    ELSE t.out

\* list(toposort(end_node))
toposort(h, end_node) == run_toposort(h, toposort_start(end_node))

----------------------------------------------------------------------------
(* The library state the functions below read and write:                   *)
(*   heap   the Nodes built so far                                         *)
(*   top    trace_stack.top                                                *)
(*   active ghost: for each trace_id of a running trace(), its root Node   *)
(*   registry  core.primitive_vjps                                         *)

St(h, t, a, reg) == [heap |-> h, top |-> t, active |-> a, registry |-> reg]

NoActive == [t \in {} |-> None]

\* the running trace() call that records at trace_id (None when there is none)
Invocation(st, trace_id) ==
    IF trace_id \in DOMAIN st.active THEN st.active[trace_id] ELSE None

\* util.subvals with ivs given as a sequence of <<i, v>>, from the k-th on
RECURSIVE subvals_from(_, _, _)
subvals_from(x, ivs, k) ==
    IF k > Len(ivs) THEN x
    ELSE subvals_from([x EXCEPT ![ivs[k][1] + 1] = ivs[k][2]], ivs, k + 1)

subvals(x, ivs) == subvals_from(x, ivs, 1)

\* util.subval
subval(x, i, v) == [x EXCEPT ![i + 1] = v]

\* the loop of find_top_boxed_args from argument number argnum on
RECURSIVE find_top_from(_, _, _, _)
find_top_from(args, argnum, top_boxes, top_trace_id) ==
    IF argnum >= Len(args)
    THEN [top_boxes |-> top_boxes, top_trace_id |-> top_trace_id]
    ELSE LET arg == args[argnum + 1]
         IN  IF isbox(arg) /\ BoxTraceId(arg) > top_trace_id
             THEN find_top_from(args, argnum + 1, <<<<argnum, arg>>>>, BoxTraceId(arg))
             ELSE IF isbox(arg) /\ BoxTraceId(arg) = top_trace_id
             THEN find_top_from(args, argnum + 1, Append(top_boxes, <<argnum, arg>>),
                                top_trace_id)
             ELSE find_top_from(args, argnum + 1, top_boxes, top_trace_id)

\* a faulty find_top_boxed_args whose loop starts at the second argument
find_top_skips_first(args) == find_top_from(args, 1, <<>>, -1)

\* a faulty find_top_boxed_args that takes every Box, whatever its trace_id
find_top_any_trace(args) ==
    LET boxed == SelectSeq([k \in 1..Len(args) |-> k - 1],
                           LAMBDA i : isbox(args[i + 1]))
        ids == {BoxTraceId(args[boxed[j] + 1]) : j \in 1..Len(boxed)}
    IN  [top_boxes |-> [j \in 1..Len(boxed) |-> <<boxed[j], args[boxed[j] + 1]>>],
         top_trace_id |-> IF ids = {} THEN -1
                          ELSE CHOOSE t \in ids : \A u \in ids : u <= t]

find_top_boxed_args(args) == find_top_from(args, 0, <<>>, -1)

\* the raw numpy functions, on rank-0 values
f_raw(f, args) ==
    CASE f = "multiply" -> Raw(args[1].raw * args[2].raw)
      [] f = "add" -> Raw(args[1].raw + args[2].raw)
      [] f = "floor_divide" -> Raw(args[1].raw \div args[2].raw)
      [] f = "maximum" -> Raw(IF args[1].raw >= args[2].raw THEN args[1].raw
                              ELSE args[2].raw)

\* primitive(f_raw) called with args: [st, ans]
RECURSIVE f_wrapped(_, _, _)
f_wrapped(st, f, args) ==
    LET found == find_top_boxed_args(args)
        boxed_args == found.top_boxes
        trace_id == found.top_trace_id
    IN  IF boxed_args # <<>>
        THEN LET argvals == subvals(args, [k \in 1..Len(boxed_args) |->
                                <<boxed_args[k][1], BoxValue(boxed_args[k][2])>>])
                 parents == [k \in 1..Len(boxed_args) |-> BoxNode(boxed_args[k][2])]
                 argnums == [k \in 1..Len(boxed_args) |-> boxed_args[k][1]]
                 r == f_wrapped(st, f, argvals)
                 node == Node(r.ans, f, argvals, argnums, parents)
                 h == Append(r.st.heap,
                             Entry(node, trace_id, Invocation(st, trace_id)))
             IN  [st |-> [r.st EXCEPT !.heap = h],
                  ans |-> new_box(r.ans, trace_id, Len(h))]
        ELSE [st |-> st, ans |-> f_raw(f, args)]

\* notrace_primitive(f_raw) called with args: the arguments f_raw receives
notrace_argvals(args) == [k \in 1..Len(args) |-> getval(args[k])]

\* notrace_primitive(f_raw) called with args: [st, ans]
f_notrace(st, f, args) == [st |-> st, ans |-> f_raw(f, notrace_argvals(args))]

----------------------------------------------------------------------------
(* The VJP registry and the rules of numpy_vjps.py.  On a Box the Python   *)
(* operators * and + are the primitives multiply and add, on raw numbers   *)
(* they are the raw functions, which is what f_wrapped does without boxes. *)

\* anp.ndim, a notrace primitive: every value here has rank 0
ndim(x) == 0

\* with ndim(g) = ndim(target) = 0 and shape () no axis is summed
unbroadcast(target, g) == g

\* primitive_vjps once numpy_vjps is imported: the argnums that have a rule,
\* per primitive given to defvjp (maximum is a primitive that was not)
primitive_vjps == [multiply |-> {0, 1}, add |-> {0, 1}]

\* primitive_vjps[fun] on the defaultdict(dict): a missing key is inserted
\* with an empty dict before it is returned
registry_getitem(reg, fun) ==
    IF fun \in DOMAIN reg THEN reg ELSE (fun :> {}) @@ reg

\* unbroadcast(target, p) for the product p = [st, ans] a rule computed
unbroadcast_result(target, p) == [st |-> p.st, ans |-> unbroadcast(target, p.ans)]

\* primitive_vjps[fun][argnum](g, ans, *args): [st, ans]
vjp_rule(st, fun, argnum, g, ans, args) ==
    CASE fun = "multiply" /\ argnum = 0 ->
            unbroadcast_result(args[1], f_wrapped(st, "multiply", <<args[2], g>>))
      [] fun = "multiply" /\ argnum = 1 ->
            unbroadcast_result(args[2], f_wrapped(st, "multiply", <<args[1], g>>))
      [] fun = "add" /\ argnum = 0 -> [st |-> st, ans |-> unbroadcast(args[1], g)]
      [] fun = "add" /\ argnum = 1 -> [st |-> st, ans |-> unbroadcast(args[2], g)]

\* a faulty add_outgrads that replaces what was stored
add_outgrads_overwrite(st, outgrads, parent, g) == [st |-> st, ans |-> g]

\* add_outgrads, prev_g being None when parent is not a key of outgrads
add_outgrads(st, outgrads, parent, g) ==
    IF parent \notin DOMAIN outgrads THEN [st |-> st, ans |-> g]
    ELSE f_wrapped(st, "add", <<outgrads[parent], g>>)

----------------------------------------------------------------------------
(* core.backward_pass, one iteration of `for node in toposort(end_node)`   *)
(* at a time.  b holds the call's locals: order is what the generator      *)
(* yields (the graph under end_node does not change during the pass), i    *)
(* the position in it.  Ghost: contribs[n] is the sequence of parent_grad  *)
(* values stored for n so far, popped the Nodes whose outgrad was removed  *)
(* with the outgrad each had, rules the number of rule calls.  raised      *)
(* tells that the lookup of a rule raised KeyError, which ends the pass.   *)

backward_start(h, g, end_node) ==
    [active |-> TRUE, end_node |-> end_node, g |-> g,
     order |-> toposort(h, end_node), i |-> 1,
     outgrads |-> (end_node :> g), outgrad |-> NoneVal,
     contribs |-> [n \in {} |-> <<>>], popped |-> <<>>, rules |-> 0,
     raised |-> FALSE]

Contribs(b, n) == IF n \in DOMAIN b.contribs THEN b.contribs[n] ELSE <<>>

RECURSIVE backward_edges(_, _, _, _, _)
RECURSIVE backward_rule(_, _, _, _, _, _)
RECURSIVE backward_store(_, _, _, _, _, _, _)
RECURSIVE backward_lookup(_, _, _, _, _)

\* `outgrads[parent] = ...` with the sum add_outgrads returned
backward_store(b, n, outgrad, k, parent, parent_grad, sum) ==
    backward_edges(sum.st,
                   [b EXCEPT !.outgrads = (parent :> sum.ans) @@ b.outgrads,
                             !.contribs = (parent :> Append(Contribs(b, parent),
                                                            parent_grad)) @@ b.contribs,
                             !.rules = @ + 1],
                   n, outgrad, k + 1)

\* the loop body after the rule returned pg = [st, ans]
backward_rule(b, n, outgrad, k, parent, pg) ==
    backward_store(b, n, outgrad, k, parent, pg.ans,
                   add_outgrads(pg.st, b.outgrads, parent, pg.ans))

\* `vjp = primitive_vjps[fun][argnum]`, st holding the registry after
\* primitive_vjps[fun]: the rule is called, or [argnum] raises KeyError
backward_lookup(st, b, n, outgrad, k) ==
    IF st.heap[n].node.argnums[k] \in st.registry[st.heap[n].node.fun]
    THEN backward_rule(b, n, outgrad, k, st.heap[n].node.parents[k],
                       vjp_rule(st, st.heap[n].node.fun, st.heap[n].node.argnums[k],
                                outgrad, st.heap[n].node.value, st.heap[n].node.args))
    ELSE [st |-> st, b |-> [b EXCEPT !.raised = TRUE]]

\* `for argnum, parent in zip(argnums, node.parents)` from the k-th pair on
backward_edges(st, b, n, outgrad, k) ==
    IF k > Len(st.heap[n].node.argnums) \/ k > Len(st.heap[n].node.parents)
    THEN [st |-> st, b |-> b]
    ELSE backward_lookup(
             [st EXCEPT !.registry = registry_getitem(@, st.heap[n].node.fun)],
             b, n, outgrad, k)

\* `outgrad = outgrads.pop(node)`
backward_pop(b, n) ==
    [b EXCEPT !.outgrads = [m \in DOMAIN b.outgrads \ {n} |-> b.outgrads[m]],
              !.outgrad = b.outgrads[n],
              !.popped = Append(@, [node |-> n, outgrad |-> b.outgrads[n]]),
              !.i = @ + 1]

\* one iteration of the outer loop: [st, b]
backward_node(st, b) ==
    backward_edges(st, backward_pop(b, b.order[b.i]), b.order[b.i],
                   b.outgrads[b.order[b.i]], 1)

\* the remaining iterations and `return outgrad`, or the KeyError leaving the
\* pass, r = [st, b]: [st, ans, rules, raised]
RECURSIVE run_backward(_)
run_backward(r) ==
    IF r.b.raised
    THEN [st |-> r.st, ans |-> NoneVal, rules |-> r.b.rules, raised |-> TRUE]
    ELSE IF r.b.i > Len(r.b.order)
    THEN [st |-> r.st, ans |-> r.b.outgrad, rules |-> r.b.rules, raised |-> FALSE]
    ELSE run_backward(backward_node(r.st, r.b))

\* backward_pass(g, end_node): [st, ans, rules, raised]
backward_pass(st, g, end_node) ==
    run_backward([st |-> st, b |-> backward_start(st.heap, g, end_node)])

----------------------------------------------------------------------------
(* tracer.trace and core.make_vjp, split where fun is called.              *)

\* a faulty entry that boxes x with the depth before new_trace's increment
trace_enter_stale_id(st, x) ==
    [st |-> St(Append(st.heap, Entry(new_root, st.top, Len(st.heap) + 1)),
               st.top + 1, (st.top :> (Len(st.heap) + 1)) @@ st.active,
               st.registry),
     start_node |-> Len(st.heap) + 1, trace_id |-> st.top,
     raised |-> new_box_raises(x),
     start_box |-> new_box(x, st.top, Len(st.heap) + 1)]

\* make_vjp up to the call of fun: Node.new_root(), new_trace's increment and
\* new_box(x, trace_id, start_node), which may raise inside the with block.
\* [st, start_node, trace_id, raised, start_box]
trace_enter(st, x) ==
    [st |-> St(Append(st.heap, Entry(new_root, st.top + 1, Len(st.heap) + 1)),
               st.top + 1, ((st.top + 1) :> (Len(st.heap) + 1)) @@ st.active,
               st.registry),
     start_node |-> Len(st.heap) + 1, trace_id |-> st.top + 1,
     raised |-> new_box_raises(x),
     start_box |-> new_box(x, st.top + 1, Len(st.heap) + 1)]

\* a faulty end of trace that unwraps a result of another trace
trace_result_unwrapped(start_box, end_box) ==
    IF isbox(end_box) /\ BoxTraceId(end_box) = BoxTraceId(start_box)
    THEN [end_value |-> BoxValue(end_box), end_node |-> BoxNode(end_box)]
    ELSE [end_value |-> getval(end_box), end_node |-> None]

\* the (end_value, end_node) trace returns for fun's result end_box
trace_result(start_box, end_box) ==
    IF isbox(end_box) /\ BoxTraceId(end_box) = BoxTraceId(start_box)
    THEN [end_value |-> BoxValue(end_box), end_node |-> BoxNode(end_box)]
    ELSE [end_value |-> end_box, end_node |-> None]

\* new_trace after the yield, on a normal exit of the with block
new_trace_exit(t) == t - 1

\* new_trace when the with block raises: the generator has no try/finally,
\* the exception thrown in at the yield leaves it before `self.top -= 1`
new_trace_raise(t) == t

\* the vjp closure make_vjp returns: it keeps x and end_node
make_vjp_closure(x, end_node) == [x |-> x, end_node |-> end_node]

\* a faulty vjp that hands g back when end_node is None
call_vjp_returns_g(st, c, g) ==
    IF c.end_node = None THEN [st |-> st, ans |-> g, rules |-> 0, raised |-> FALSE]
    ELSE backward_pass(st, g, c.end_node)

\* vjp(g) of a closure: [st, ans, rules, raised], rules counting the rule calls
call_vjp(st, c, g) ==
    IF c.end_node = None
    THEN [st |-> st, ans |-> zeros_like(c.x), rules |-> 0, raised |-> FALSE]
    ELSE backward_pass(st, g, c.end_node)

----------------------------------------------------------------------------
(* User functions of the programs of SpecProg, and grad applied to them.   *)
(*   square    lambda x: x * x                                             *)
(*   seven     lambda x: 7.0                                               *)
(*   mulby     lambda y: cap * y          (cap captured from the caller)   *)
(*   nested    lambda x: grad(lambda y: x * y)(x)                          *)
(*   grad      grad(of)                                                    *)

Square == [op |-> "square"]
Seven == [op |-> "seven"]
MulBy(cap) == [op |-> "mulby", cap |-> cap]
NestedClosure == [op |-> "nested"]
Grad(of) == [op |-> "grad", of |-> of]

RECURSIVE GradK(_, _)
GradK(k, f) == IF k = 0 THEN f ELSE Grad(GradK(k - 1, f))

RECURSIVE apply(_, _, _)
RECURSIVE make_vjp(_, _, _)
RECURSIVE gradfun(_, _, _)

\* fun(x): [st, ans]
apply(st, fun, x) ==
    CASE fun.op = "square" -> f_wrapped(st, "multiply", <<x, x>>)
      [] fun.op = "seven" -> [st |-> st, ans |-> Raw(7)]
      [] fun.op = "mulby" -> f_wrapped(st, "multiply", <<fun.cap, x>>)
      [] fun.op = "nested" -> gradfun(st, MulBy(x), x)
      [] fun.op = "grad" -> gradfun(st, fun.of, x)

\* the end of trace and of make_vjp once fun returned r = [st, ans]: the with
\* block is left, top decremented, the vjp built.  [st, vjp, end_value]
make_vjp_return(st, x, start_box, r) ==
    [st |-> St(r.st.heap, new_trace_exit(r.st.top), st.active, r.st.registry),
     vjp |-> make_vjp_closure(x, trace_result(start_box, r.ans).end_node),
     end_value |-> trace_result(start_box, r.ans).end_value]

\* trace from the call of fun on, e being what trace_enter returned
trace_run(st, fun, x, e) ==
    make_vjp_return(st, x, e.start_box, apply(e.st, fun, e.start_box))

\* make_vjp(fun, x) when neither new_box nor fun raises: [st, vjp, end_value]
make_vjp(st, fun, x) == trace_run(st, fun, x, trace_enter(st, x))

\* a faulty grad that seeds the backward pass with ans itself
grad_return_seeds_ans(m) == call_vjp(m.st, m.vjp, m.end_value)

\* `return vjp(np.ones_like(ans))` for m = (vjp, ans) of make_vjp
grad_return(m) == call_vjp(m.st, m.vjp, ones_like(m.end_value))

\* grad(fun)(x): [st, ans, rules]
gradfun(st, fun, x) == grad_return(make_vjp(st, fun, x))

----------------------------------------------------------------------------
(* SpecTopo: toposort on every graph of at most MaxDag Nodes with at most  *)
(* MaxParents parents each.  A Node's parents exist when it is built and   *)
(* are never reassigned, so a parent's index is below its child's.         *)

RECURSIVE SeqsUpTo(_, _)
SeqsUpTo(S, n) ==
    IF n = 0 THEN {<<>>}
    ELSE SeqsUpTo(S, n - 1) \cup
         {Append(s, x) : s \in {q \in SeqsUpTo(S, n - 1) : Len(q) = n - 1}, x \in S}

DagEntry(parents) ==
    Entry(Node(Raw(0), IF parents = <<>> THEN "root" ELSE "multiply", <<>>,
               [k \in 1..Len(parents) |-> k - 1], parents), 0, 0)

RECURSIVE Dags(_)
Dags(n) ==
    IF n = 0 THEN {<<>>}
    ELSE {Append(h, DagEntry(ps)) : h \in Dags(n - 1),
                                    ps \in SeqsUpTo(1..(n - 1), MaxParents)}

NoBp == [active |-> FALSE]
NoLast == [op |-> "none"]
NoProg == [name |-> "none"]
NoTs == [pc |-> "idle"]
ModuleFrame == [trace_id |-> -1, start_node |-> None, depth_before |-> -1,
                x |-> NoneVal, start_box |-> NoneVal, vals |-> {}, vjps |-> {}]

InitTopo ==
    /\ heap \in UNION {Dags(n) : n \in 1..MaxDag}
    /\ ts = toposort_start(Len(heap))
    /\ top = -1
    /\ frames = <<ModuleFrame>>
    /\ bp = NoBp
    /\ last = NoLast
    /\ prog = NoProg
    /\ calls = 0
    /\ registry = primitive_vjps

TopoCount ==
    /\ ts.pc = "count"
    /\ ts' = count_step(heap, ts)
    /\ UNCHANGED <<heap, top, frames, bp, last, prog, calls, registry>>

TopoEmit ==
    /\ ts.pc = "emit"
    /\ ts' = emit_step(heap, ts)
    /\ UNCHANGED <<heap, top, frames, bp, last, prog, calls, registry>>

NextTopo == TopoCount \/ TopoEmit

SpecTopo == InitTopo /\ [][NextTopo]_vars

----------------------------------------------------------------------------
(* SpecProg: whole programs run from a fresh interpreter on each input.    *)

Inputs == (0 - MaxInput)..MaxInput

InitBase ==
    /\ heap = <<>>
    /\ top = -1
    /\ frames = <<ModuleFrame>>
    /\ bp = NoBp
    /\ last = NoLast
    /\ ts = NoTs
    /\ prog = NoProg
    /\ calls = 0
    /\ registry = primitive_vjps

Run(name, k, fun, x) ==
    /\ prog.name = "none"
    /\ LET r == gradfun(St(heap, top, NoActive, registry), fun, Raw(x))
       IN  /\ heap' = r.st.heap
           /\ registry' = r.st.registry
           /\ top' = r.st.top
           /\ prog' = [name |-> name, k |-> k, x |-> x, result |-> r.ans]
    /\ UNCHANGED <<frames, bp, last, ts, calls>>

\* grad(grad(...grad(f)...))(x) with k grads, f = lambda x: x * x
RunGradK == \E k \in 1..3, x \in Inputs : Run("gradk", k, GradK(k - 1, Square), x)

\* grad(f)(x), f = lambda x: grad(lambda y: x * y)(x)
RunNested == \E x \in Inputs : Run("nested", 1, NestedClosure, x)

\* grad(f)(x), f = lambda x: 7.0
RunSeven == \E x \in Inputs : Run("seven", 1, Seven, x)

NextProg == RunGradK \/ RunNested \/ RunSeven

SpecProg == InitBase /\ [][NextProg]_vars

----------------------------------------------------------------------------
(* Spec: any user code.  At module level and inside any running trace the  *)
(* code may call make_vjp, a primitive or a notrace primitive on values it *)
(* can name, call a vjp it holds, return or raise.  A function can name    *)
(* the literals, its argument, what it computed and what the functions     *)
(* that enclose it can name.                                               *)

Consts == {Raw(2)}

Cur == Len(frames)

StartBoxes == {frames[i].start_box : i \in 2..Len(frames)}

Scope == Consts \cup StartBoxes \cup UNION {frames[i].vals : i \in 1..Len(frames)}

Closures == UNION {frames[i].vjps : i \in 1..Len(frames)}

Active == [t \in {frames[i].trace_id : i \in 2..Len(frames)} |->
              (CHOOSE i \in 2..Len(frames) : frames[i].trace_id = t)]

ActiveRoots == [t \in DOMAIN Active |-> frames[Active[t]].start_node]

StNow == St(heap, top, ActiveRoots, registry)

\* the numbers the running code computes stay small
Small(v) == getval(v).raw <= MaxRaw

\* the values a frame holds after it computed v: it keeps at most MaxVals of
\* them and forgets one it held when there is no room
Keeps(vals, v) ==
    IF v \in vals THEN {vals}
    ELSE IF Cardinality(vals) < MaxVals THEN {vals \cup {v}}
    ELSE {(vals \ {w}) \cup {v} : w \in vals}

\* make_vjp(fun, x) up to the call of fun
MakeVjpCall(x) ==
    /\ ~bp.active
    /\ calls < MaxCalls
    /\ calls' = calls + 1
    /\ Cur <= MaxDepth /\ Len(heap) < MaxNodes /\ top < MaxTop
    /\ LET e == trace_enter(StNow, x)
       IN  /\ ~e.raised
           /\ heap' = e.st.heap
           /\ top' = e.st.top
           /\ frames' = Append(frames,
                  [trace_id |-> e.trace_id, start_node |-> e.start_node,
                   depth_before |-> top, x |-> x, start_box |-> e.start_box,
                   vals |-> {}, vjps |-> {}])
           /\ last' = [op |-> "new_box", box |-> e.start_box, top |-> e.st.top]
    /\ UNCHANGED <<bp, ts, prog, registry>>

\* make_vjp(fun, x) with x of a type that has no Box: new_box raises TypeError
MakeVjpTypeError(x) ==
    /\ ~bp.active
    /\ calls < MaxCalls
    /\ calls' = calls + 1
    /\ Cur <= MaxDepth /\ Len(heap) < MaxNodes /\ top < MaxTop
    /\ LET e == trace_enter(StNow, x)
       IN  /\ e.raised
           /\ heap' = e.st.heap
           /\ top' = new_trace_raise(e.st.top)
           /\ last' = [op |-> "make_vjp", outcome |-> "raise", depth_before |-> top,
                       top_after |-> new_trace_raise(e.st.top)]
    /\ UNCHANGED <<frames, bp, ts, prog, registry>>

\* a primitive called by the running code on at least one Box
CallPrimitive(f, a, b) ==
    /\ ~bp.active
    /\ calls < MaxCalls
    /\ calls' = calls + 1
    /\ isbox(a) \/ isbox(b)
    /\ LET r == f_wrapped(StNow, f, <<a, b>>)
       IN  /\ Len(r.st.heap) <= MaxNodes
           /\ Small(r.ans)
           /\ heap' = r.st.heap
           /\ \E nv \in Keeps(frames[Cur].vals, r.ans) :
                  frames' = [frames EXCEPT ![Cur].vals = nv]
           /\ last' = [op |-> "primitive", fun |-> f, args |-> <<a, b>>,
                       before |-> Len(heap), ans |-> r.ans]
    /\ UNCHANGED <<top, bp, ts, prog, registry>>

\* anp.floor_divide, a notrace primitive, called by the running code on at
\* least one Box; the code looks at the result and drops it
CallNotrace(a, b) ==
    /\ ~bp.active
    /\ calls < MaxCalls
    /\ calls' = calls + 1
    /\ isbox(a) \/ isbox(b)
    /\ getval(b).raw > 0
    /\ LET r == f_notrace(StNow, "floor_divide", <<a, b>>)
       IN  /\ heap' = r.st.heap
           /\ last' = [op |-> "notrace", args |-> <<a, b>>,
                       argvals |-> notrace_argvals(<<a, b>>),
                       before |-> Len(heap), ans |-> r.ans]
    /\ UNCHANGED <<top, frames, bp, ts, prog, registry>>

\* fun returns end_box: the rest of trace and of make_vjp
FunReturn(end_box) ==
    /\ ~bp.active
    /\ calls < MaxCalls
    /\ calls' = calls + 1
    /\ Cur > 1
    /\ LET F == frames[Cur]
           tr == trace_result(F.start_box, end_box)
           c == make_vjp_closure(F.x, tr.end_node)
           below == SubSeq(frames, 1, Cur - 1)
       IN  /\ top' = new_trace_exit(top)
           /\ \E nv \in Keeps(below[Cur - 1].vals, tr.end_value) :
                  frames' = [below EXCEPT ![Cur - 1].vals = nv,
                                          ![Cur - 1].vjps = @ \cup {c}]
           /\ last' = [op |-> "make_vjp", outcome |-> "return",
                       depth_before |-> F.depth_before,
                       top_after |-> new_trace_exit(top),
                       trace_id |-> F.trace_id, start_box |-> F.start_box,
                       end_box |-> end_box, end_value |-> tr.end_value,
                       end_node |-> tr.end_node]
    /\ UNCHANGED <<heap, bp, ts, prog, registry>>

\* fun raises: the exception leaves trace and make_vjp
FunRaise ==
    /\ ~bp.active
    /\ calls < MaxCalls
    /\ calls' = calls + 1
    /\ Cur > 1
    /\ top' = new_trace_raise(top)
    /\ frames' = SubSeq(frames, 1, Cur - 1)
    /\ last' = [op |-> "make_vjp", outcome |-> "raise",
                depth_before |-> frames[Cur].depth_before,
                top_after |-> new_trace_raise(top)]
    /\ UNCHANGED <<heap, bp, ts, prog, registry>>

\* vjp(g) of a closure made with end_node None
VjpZeros(c, g) ==
    /\ ~bp.active
    /\ calls < MaxCalls
    /\ calls' = calls + 1
    /\ c.end_node = None
    /\ LET r == call_vjp(StNow, c, g)
       IN  /\ heap' = r.st.heap
           /\ \E nv \in Keeps(frames[Cur].vals, r.ans) :
                  frames' = [frames EXCEPT ![Cur].vals = nv]
           /\ last' = [op |-> "vjp", c |-> c, g |-> g, ans |-> r.ans,
                       rules |-> r.rules, before |-> Len(heap)]
    /\ UNCHANGED <<top, bp, ts, prog, registry>>

\* vjp(g) of a closure with an end_node: backward_pass up to its loop
BackwardStart(c, g) ==
    /\ ~bp.active
    /\ calls < MaxCalls
    /\ calls' = calls + 1
    /\ c.end_node # None
    /\ LET r == backward_pass(StNow, g, c.end_node)
       IN  Len(r.st.heap) <= MaxNodes /\ Small(r.ans)
    /\ bp' = backward_start(heap, g, c.end_node)
    /\ last' = [op |-> "backward_start", c |-> c, g |-> g]
    /\ UNCHANGED <<heap, top, frames, ts, prog, registry>>

\* the values of bp and last after an iteration that left the library state
\* and the locals r = [st, b]: on a KeyError the pass is over
backward_after(r, node, outgrad, contribs, before) ==
    IF r.b.raised
    THEN [bp |-> NoBp,
          last |-> [op |-> "backward_raise", node |-> node,
                    fun |-> r.st.heap[node].node.fun, before |-> before]]
    ELSE [bp |-> r.b,
          last |-> [op |-> "backward_node", node |-> node, outgrad |-> outgrad,
                    contribs |-> contribs, before |-> before]]

\* what BackwardStep assigns, r being what the iteration left
backward_assign(r, after) ==
    /\ heap' = r.st.heap
    /\ registry' = r.st.registry
    /\ bp' = after.bp
    /\ last' = after.last

\* one iteration of backward_pass's loop over toposort(end_node); a KeyError
\* of the rule lookup leaves backward_pass and vjp(g) for the caller
BackwardStep ==
    /\ bp.active
    /\ UNCHANGED calls
    /\ bp.i <= Len(bp.order)
    /\ backward_assign(backward_node(StNow, bp),
                       backward_after(backward_node(StNow, bp), bp.order[bp.i],
                                      bp.outgrads[bp.order[bp.i]],
                                      Contribs(bp, bp.order[bp.i]), Len(heap)))
    /\ UNCHANGED <<top, frames, ts, prog>>

\* backward_pass returns outgrad
BackwardReturn ==
    /\ bp.active
    /\ UNCHANGED calls
    /\ bp.i > Len(bp.order)
    /\ \E nv \in Keeps(frames[Cur].vals, bp.outgrad) :
           frames' = [frames EXCEPT ![Cur].vals = nv]
    /\ last' = [op |-> "backward_pass", end_node |-> bp.end_node, g |-> bp.g,
                ans |-> bp.outgrad, popped |-> bp.popped, rules |-> bp.rules]
    /\ bp' = NoBp
    /\ UNCHANGED <<heap, top, ts, prog, registry>>

Next ==
    \/ \E x \in Scope : MakeVjpCall(x)
    \/ MakeVjpTypeError(StrVal)
    \/ \E f \in {"multiply", "add"}, a, b \in Scope : CallPrimitive(f, a, b)
    \/ \E a, b \in Scope : CallNotrace(a, b)
    \/ \E v \in Scope : FunReturn(v)
    \/ FunRaise
    \/ \E c \in Closures, g \in Scope : VjpZeros(c, g)
    \/ \E c \in Closures, g \in Scope : BackwardStart(c, g)
    \/ BackwardStep
    \/ BackwardReturn

Spec == InitBase /\ [][Next]_vars

----------------------------------------------------------------------------
(* SpecRegistry: user code that also calls anp.maximum, a ufunc that       *)
(* wrap_namespace makes a primitive and that no defvjp call names, and     *)
(* runs the vjps it holds.                                                 *)

NextRegistry ==
    \/ \E x \in Scope : MakeVjpCall(x)
    \/ \E f \in {"multiply", "maximum"}, a, b \in Scope : CallPrimitive(f, a, b)
    \/ \E v \in Scope : FunReturn(v)
    \/ \E c \in Closures, g \in Scope : VjpZeros(c, g)
    \/ \E c \in Closures, g \in Scope : BackwardStart(c, g)
    \/ BackwardStep
    \/ BackwardReturn

SpecRegistry == InitBase /\ [][NextRegistry]_vars

----------------------------------------------------------------------------
(* Operators the properties are stated with.  They are computed from the   *)
(* recorded data alone, not with the operators that model the library.     *)

\* the trace_ids of the Boxes around a value
LayerIds(v) == {v.layers[i].trace_id : i \in DOMAIN v.layers}

\* the Node of the Box with trace_id t around v
LayerNode(v, t) ==
    v.layers[CHOOSE i \in DOMAIN v.layers : v.layers[i].trace_id = t].node

\* the number under all the Boxes of v
DeepRaw(v) == [raw |-> v.raw, ty |-> v.ty, layers |-> <<>>]

ParentSet(h, n) == {h[n].node.parents[k] : k \in DOMAIN h[n].node.parents}

RECURSIVE ReachFrom(_, _)
ReachFrom(h, S) ==
    LET T == S \cup UNION {ParentSet(h, n) : n \in S}
    IN  IF T = S THEN S ELSE ReachFrom(h, T)

\* the Nodes reachable from end_node along parents
Reachable(h, end_node) == ReachFrom(h, {end_node})

\* the (consumer, position) edges into n in the graph under end_node
InEdges(h, end_node, n) ==
    {e \in UNION {{<<m, k>> : k \in DOMAIN h[m].node.parents} :
                  m \in Reachable(h, end_node)} :
        h[e[1]].node.parents[e[2]] = n}

RECURSIVE SumRaw(_)
SumRaw(vs) == IF vs = <<>> THEN 0 ELSE getval(vs[1]).raw + SumRaw(Tail(vs))

\* the argument numbers of the args that have a Box with trace_id t, in order
ArgnumsAt(args, t) ==
    SelectSeq([k \in 1..Len(args) |-> k - 1], LAMBDA i : t \in LayerIds(args[i + 1]))

Roots(h) == {n \in DOMAIN h : h[n].node.fun = "root"}

----------------------------------------------------------------------------
(* Properties *)

\* C1: for every call make_vjp(fun, x) made at trace-stack depth d,
\* trace_stack.top equals d again once the call has finished, both when fun
\* returns and when fun or new_box raises inside the trace.
C1_DepthRestored ==
    last.op = "make_vjp" => last.top_after = last.depth_before

\* C2: a vjp made by make_vjp when trace returned end_node = None yields
\* zeros_like(x) for every cotangent g, calls no VJP rule and records no Node.
C2_NoneGivesZeros ==
    (last.op = "vjp" /\ last.c.end_node = None) =>
        /\ last.ans = Raw(0)
        /\ last.rules = 0
        /\ Len(heap) = last.before

C2_Witness ==
    /\ last.op = "vjp"
    /\ last.c.end_node = None
    /\ getval(last.g).raw # 0

C4_NestedClosureIsOne ==
    prog.name = "nested" => prog.result = Raw(1)

C4_Witness ==
    prog.name = "nested" /\ prog.x = 5 /\ prog.result = Raw(1)

\* C4 as stated: grad(f)(5.0) = 10.0
C4_NestedClosureIsTen ==
    (prog.name = "nested" /\ prog.x = 5) => prog.result = Raw(10)

\* C5: for f(x) = x * x, grad(f)(x) = 2x, grad(grad(f))(x) = 2 and
\* grad(grad(grad(f)))(x) = 0, which at 3 are 6, 2 and 0; the k nested grads
\* run k traces, at the trace_ids 0..k-1, and leave the trace stack empty.
C5_NestedGrad ==
    prog.name = "gradk" =>
        /\ prog.k = 1 => prog.result = Raw(2 * prog.x)
        /\ prog.k = 2 => prog.result = Raw(2)
        /\ prog.k = 3 => prog.result = Raw(0)
        /\ (prog.x = 3 /\ prog.k = 1) => prog.result = Raw(6)
        /\ Cardinality(Roots(heap)) = prog.k
        /\ {heap[n].trace_id : n \in Roots(heap)} = 0..(prog.k - 1)
        /\ top = -1

C5_Witness ==
    /\ prog.name = "gradk"
    /\ prog.k = 3
    /\ prog.x = 3
    /\ prog.result = Raw(0)

\* C6 (as amended): trace returns (end_box._value, end_box._node) exactly when
\* fun's result is a Box whose trace_id is the one acquired; in every other
\* case it returns end_node = None with fun's result unchanged, a Box of
\* another trace_id still being that Box.
C6_TraceResult ==
    (last.op = "make_vjp" /\ last.outcome = "return") =>
        IF isbox(last.end_box) /\ BoxTraceId(last.end_box) = last.trace_id
        THEN /\ last.end_value = BoxValue(last.end_box)
             /\ last.end_node = BoxNode(last.end_box)
             /\ last.end_node # None
        ELSE /\ last.end_node = None
             /\ last.end_value = last.end_box

C6_Witness ==
    /\ last.op = "make_vjp"
    /\ last.outcome = "return"
    /\ isbox(last.end_box)
    /\ BoxTraceId(last.end_box) # last.trace_id

\* C6 as stated: in every other case the result comes back unwrapped if it
\* is a Box and as it is otherwise
C6_OtherwiseUnwrapped ==
    (/\ last.op = "make_vjp"
     /\ last.outcome = "return"
     /\ ~(isbox(last.end_box) /\ BoxTraceId(last.end_box) = last.trace_id)) =>
        /\ last.end_node = None
        /\ IF isbox(last.end_box)
           THEN last.end_value \in {BoxValue(last.end_box), getval(last.end_box)}
           ELSE last.end_value = last.end_box

\* C7: toposort emits every Node reachable from end_node exactly once, and a
\* Node only after all the Nodes that have it as a parent, also when Nodes
\* share a parent or list a parent twice.
C7_ToposortOrder ==
    ts.pc \in {"count", "emit", "done"} =>
        /\ \A i, j \in DOMAIN ts.out : i # j => ts.out[i] # ts.out[j]
        /\ \A j \in DOMAIN ts.out :
               /\ ts.out[j] \in Reachable(heap, ts.end_node)
               /\ \A m \in Reachable(heap, ts.end_node) :
                      ts.out[j] \in ParentSet(heap, m) =>
                          \E i \in 1..(j - 1) : ts.out[i] = m
        /\ ts.pc = "done" =>
               {ts.out[j] : j \in DOMAIN ts.out} = Reachable(heap, ts.end_node)

C7_Witness ==
    /\ ts.pc = "done"
    /\ Len(ts.out) = MaxDag
    /\ \E n \in DOMAIN heap : heap[n].node.parents \in {<<p, p>> : p \in DOMAIN heap}
    /\ \E p, m, n \in DOMAIN heap :
           m # n /\ p \in ParentSet(heap, m) /\ p \in ParentSet(heap, n)

\* C8: in backward_pass, when a Node's cotangent is removed from outgrads it
\* is the sum of one contribution per (argnum, parent) edge from every
\* consumer of the Node (g itself for end_node), and the value returned is the
\* cotangent removed for the root Node of the trace, which is processed last.
C8_CotangentIsSum ==
    /\ last.op = "backward_node" =>
           IF last.node = bp.end_node
           THEN last.contribs = <<>> /\ last.outgrad = bp.g
           ELSE /\ Len(last.contribs) =
                       Cardinality(InEdges(heap, bp.end_node, last.node))
                /\ getval(last.outgrad).raw = SumRaw(last.contribs)
    /\ last.op = "backward_pass" =>
           /\ last.popped # <<>>
           /\ last.popped[Len(last.popped)].node = heap[last.end_node].inv
           /\ heap[last.popped[Len(last.popped)].node].node.fun = "root"
           /\ last.ans = last.popped[Len(last.popped)].outgrad
           /\ {last.popped[i].node : i \in DOMAIN last.popped} =
                  Reachable(heap, last.end_node)

C8_Witness ==
    /\ last.op = "backward_node"
    /\ Len(last.contribs) >= 3
    /\ getval(last.outgrad).raw > 0

\* C9: a primitive called with arguments boxed at k distinct trace_ids records
\* exactly one Node per trace_id, of the same primitive, whose parents and
\* parent_argnums are exactly the arguments boxed at that trace_id in
\* argument order, and returns a Box at the largest trace_id whose nested
\* values are Boxes of strictly decreasing trace_id, one per recorded Node.
C9_OneNodePerTraceId ==
    last.op = "primitive" =>
        LET ids == UNION {LayerIds(last.args[k]) : k \in DOMAIN last.args}
            new == (last.before + 1)..Len(heap)
        IN  /\ Cardinality(new) = Cardinality(ids)
            /\ {heap[n].trace_id : n \in new} = ids
            /\ \A n \in new :
                   /\ heap[n].node.fun = last.fun
                   /\ heap[n].node.argnums = ArgnumsAt(last.args, heap[n].trace_id)
                   /\ Len(heap[n].node.parents) = Len(heap[n].node.argnums)
                   /\ \A j \in DOMAIN heap[n].node.argnums :
                          /\ heap[n].trace_id \in
                                 LayerIds(last.args[heap[n].node.argnums[j] + 1])
                          /\ heap[n].node.parents[j] =
                                 LayerNode(last.args[heap[n].node.argnums[j] + 1],
                                           heap[n].trace_id)
            /\ Len(last.ans.layers) = Cardinality(ids)
            /\ \A i \in DOMAIN last.ans.layers :
                   /\ last.ans.layers[i].node \in new
                   /\ heap[last.ans.layers[i].node].trace_id =
                          last.ans.layers[i].trace_id
                   /\ \A j \in DOMAIN last.ans.layers :
                          i < j => last.ans.layers[i].trace_id <
                                       last.ans.layers[j].trace_id

C9_Witness ==
    /\ last.op = "primitive"
    /\ Cardinality(UNION {LayerIds(last.args[k]) : k \in DOMAIN last.args}) >= 2
    /\ \A k \in DOMAIN last.args : isbox(last.args[k])

\* C10: every Node a primitive recorded has as parents only Nodes created in
\* the same trace invocation as itself, older than itself, so that it reaches
\* that invocation's root and no other and the graph has no cycle; a root
\* Node belongs to its own invocation only.
C10_ParentsInSameInvocation ==
    \A n \in DOMAIN heap :
        IF heap[n].node.fun = "root"
        THEN heap[n].inv = n /\ heap[n].node.parents = <<>>
        ELSE /\ heap[n].node.parents # <<>>
             /\ heap[n].inv \in Roots(heap)
             /\ \A p \in ParentSet(heap, n) :
                    /\ p \in 1..(n - 1)
                    /\ heap[p].inv = heap[n].inv
             /\ Reachable(heap, n) \cap Roots(heap) = {heap[n].inv}

C10_Witness ==
    \E m, n \in DOMAIN heap :
        /\ heap[m].node.fun # "root"
        /\ heap[n].node.fun # "root"
        /\ heap[m].trace_id = heap[n].trace_id
        /\ heap[m].inv # heap[n].inv

\* the largest trace_id of the Boxes that are arguments
TopArgId(args) ==
    LET ids == {BoxTraceId(args[k]) : k \in {i \in DOMAIN args : isbox(args[i])}}
    IN  CHOOSE t \in ids : \A u \in ids : u <= t

\* C11 (as amended): the Box trace creates for the input carries trace_id =
\* trace_stack.top at its creation; a Box a primitive creates carries the
\* largest trace_id of the boxed arguments, the Boxes nested in it lower ones,
\* and these are at most trace_stack.top, not always equal to it.
C11_BoxTraceId ==
    /\ last.op = "new_box" =>
           /\ BoxTraceId(last.box) = last.top
           /\ last.top = top
    /\ last.op = "primitive" =>
           /\ BoxTraceId(last.ans) = TopArgId(last.args)
           /\ \A i \in DOMAIN last.ans.layers : last.ans.layers[i].trace_id <= top
    /\ last.op \in {"primitive", "backward_node"} =>
           \A n \in (last.before + 1)..Len(heap) :
               heap[n].trace_id \in 0..top

C11_Witness ==
    /\ last.op = "primitive"
    /\ BoxTraceId(last.ans) < top
    /\ Cur = 3
    /\ frames[3].depth_before = frames[3].trace_id - 1
    /\ top = frames[3].trace_id

\* C11 as stated: every Box, of trace and of a primitive, carries the
\* trace_stack.top of the moment it is created
C11_BoxAtCurrentDepth ==
    /\ last.op = "new_box" => BoxTraceId(last.box) = top
    /\ last.op = "primitive" =>
           \A i \in DOMAIN last.ans.layers : last.ans.layers[i].trace_id = top

\* C12: running make_vjp and the vjp it returns never changes the registry
\* primitive_vjps: its keys and their argnum-to-rule entries stay what the
\* defvjp calls made them, also when the backward pass asks for the rule of a
\* primitive that was never given to defvjp and the error reaches the caller.
C12_RegistryUnchanged ==
    /\ DOMAIN registry = DOMAIN primitive_vjps
    /\ \A f \in DOMAIN primitive_vjps : registry[f] = primitive_vjps[f]

====
